---- MODULE Spec2Model ----
(***************************************************************************)
(* Model of human_mcp_server.py: the two global dictionaries               *)
(* pending_requests and completed_responses, the Flask handler             *)
(* submit_response (one thread per HTTP request) and the MCP coroutine     *)
(* handle_call_tool (one task per tool call).                              *)
(*                                                                         *)
(* The Flask handlers run on threads of their own, the coroutines on the   *)
(* event loop's thread, and nothing in the source locks the dictionaries.  *)
(* A single dictionary operation (in, d[k] = v, d[k], del d[k]) is atomic; *)
(* a sequence of them is not, so every statement that touches a shared     *)
(* dictionary is one step of the model and steps of different threads      *)
(* interleave freely.  Statements that touch only locals are folded into   *)
(* the neighbouring step; a coroutine suspended in asyncio.sleep is at     *)
(* "sleep", and one poll interval passes when it wakes.                    *)
(***************************************************************************)
EXTENDS Integers, FiniteSets, Sequences, TLC

\* ---- bounds of the model ----
\* number of tool calls (handle_call_tool invocations) in a run
NumCalls == 2
\* number of POST /submit_response requests (handler threads) in a run
NumAnswers == 2
\* max_wait = 300 in the source (line 582); the model runs the same loop
\* with a scaled-down number of poll intervals
max_wait == 2

Calls == 1 .. NumCalls
Answers == 1 .. NumAnswers

\* an id generator that hands every call the same id
uuid4Fixed(c) == 1

\* request_id = str(uuid.uuid4()): every call draws an id no other call has
uuid4(c) == c
Ids == {uuid4(c) : c \in Calls}

\* data.get('response') and data.get('is_error', False) of the POST body
Texts == {"yes", "no"}
\* (name, arguments) of an inbound tool call
CallInputs == { [tool_name |-> "ask_human", arguments |-> "question: Proceed?"],
                [tool_name |-> "human_decision", arguments |-> "decision_needed: X, options: A,B"] }
\* datetime.now().isoformat()
Timestamps == {"t1", "t2"}

TimeoutMsg == "Request timed out - no human response received within 5 minutes"

\* ---- outcomes ----
NoOutcome == [kind |-> "none", text |-> ""]
\* return [TextContent(type="text", text=...)]
Return(text) == [kind |-> "return", text |-> text]
\* raise Exception(...)
RaiseException(text) == [kind |-> "raise_Exception", text |-> text]
\* del d[k] with k absent raises KeyError(k)
RaiseKeyError == [kind |-> "raise_KeyError", text |-> "request_id"]

NoData == [response |-> "", is_error |-> FALSE]
NoRequest == [request_id |-> 0, response |-> "", is_error |-> FALSE]

\* ---- dictionaries ----
EmptyDict == [k \in {} |-> NoData]
Has(d, k) == k \in DOMAIN d
DictSet(d, k, v) == [x \in (DOMAIN d) \cup {k} |-> IF x = k THEN v ELSE d[x]]
DictDel(d, k) == [x \in (DOMAIN d) \ {k} |-> d[x]]

VARIABLES
    pending_requests,     \* request_id -> {tool_name, arguments, timestamp}
    completed_responses,  \* request_id -> {response, is_error}
    pc,                   \* position of each handle_call_tool coroutine
    waited,               \* its local counter
    response_data,        \* its local response_data
    outcome,              \* what the coroutine returned or raised
    apc,                  \* position of each submit_response thread
    areq,                 \* its request_id, response_text, is_error
    aresult               \* what the handler returned

vars == <<pending_requests, completed_responses, pc, waited, response_data,
          outcome, apc, areq, aresult>>

callVars == <<pc, waited, response_data, outcome>>
answerVars == <<apc, areq, aresult>>

Init ==
    /\ pending_requests = EmptyDict
    /\ completed_responses = EmptyDict
    /\ pc = [c \in Calls |-> "start"]
    /\ waited = [c \in Calls |-> 0]
    /\ response_data = [c \in Calls |-> NoData]
    /\ outcome = [c \in Calls |-> NoOutcome]
    /\ apc = [a \in Answers |-> "idle"]
    /\ areq = [a \in Answers |-> NoRequest]
    /\ aresult = [a \in Answers |-> "none"]

\* ---- GET /get_requests ----
get_requests == pending_requests

\* ---- POST /submit_response ----
\* the membership test replaced by a test that the id was ever issued
InPendingKnownId(id) == id \in Ids

\* if request_id in pending_requests:
InPending(id) == Has(pending_requests, id)

\* lines 480-485, 493: read the body, test membership, or return not found
submit_response_if(a) ==
    /\ apc[a] = "idle"
    /\ \E id \in Ids, text \in Texts, err \in BOOLEAN :
         /\ areq' = [areq EXCEPT ![a] = [request_id |-> id, response |-> text, is_error |-> err]]
         /\ IF InPending(id)
            THEN /\ apc' = [apc EXCEPT ![a] = "store"]
                 /\ aresult' = aresult
            ELSE /\ apc' = [apc EXCEPT ![a] = "done"]
                 /\ aresult' = [aresult EXCEPT ![a] = "not_found"]
    /\ UNCHANGED <<pending_requests, completed_responses, callVars>>

\* the answer filed under the oldest pending id instead of the id it names
StoreKeyOldest(a) ==
    IF DOMAIN pending_requests = {}
    THEN areq[a].request_id
    ELSE CHOOSE k \in DOMAIN pending_requests : \A j \in DOMAIN pending_requests : k <= j

\* line 486: the key the answer is stored under
StoreKey(a) == areq[a].request_id

\* lines 486-489: completed_responses[request_id] = {...}
submit_response_store(a) ==
    /\ apc[a] = "store"
    /\ completed_responses' =
         DictSet(completed_responses, StoreKey(a),
                 [response |-> areq[a].response, is_error |-> areq[a].is_error])
    /\ apc' = [apc EXCEPT ![a] = "del"]
    /\ UNCHANGED <<pending_requests, callVars, areq, aresult>>

\* lines 490-491: del pending_requests[request_id]; return success
submit_response_del(a) ==
    /\ apc[a] = "del"
    /\ IF Has(pending_requests, areq[a].request_id)
       THEN /\ pending_requests' = DictDel(pending_requests, areq[a].request_id)
            /\ aresult' = [aresult EXCEPT ![a] = "success"]
       ELSE /\ pending_requests' = pending_requests
            /\ aresult' = [aresult EXCEPT ![a] = "KeyError"]
    /\ apc' = [apc EXCEPT ![a] = "done"]
    /\ UNCHANGED <<completed_responses, callVars, areq>>

\* ---- handle_call_tool ----
\* lines 570-583: draw the id, insert the entry, waited = 0
handle_call_tool_insert(c) ==
    /\ pc[c] = "start"
    /\ \E in \in CallInputs, ts \in Timestamps :
         pending_requests' =
           DictSet(pending_requests, uuid4(c),
                   [tool_name |-> in.tool_name, arguments |-> in.arguments,
                    timestamp |-> ts])
    /\ waited' = [waited EXCEPT ![c] = 0]
    /\ pc' = [pc EXCEPT ![c] = "while"]
    /\ UNCHANGED <<completed_responses, response_data, outcome, answerVars>>

\* the loop test counting the interval it is about to sleep as already waited
LoopCondEarly(c, w) ==
    /\ ~Has(completed_responses, uuid4(c))
    /\ w + 1 < max_wait

\* the loop test that looks at the deadline only
LoopCondDeadlineOnly(c, w) == w < max_wait

\* line 585: request_id not in completed_responses and waited < max_wait
LoopCond(c, w) ==
    /\ ~Has(completed_responses, uuid4(c))
    /\ w < max_wait

\* line 585: the first loop test, right after the insertion; the body
\* suspends the coroutine in asyncio.sleep(1)
handle_call_tool_while(c) ==
    /\ pc[c] = "while"
    /\ pc' = [pc EXCEPT ![c] = IF LoopCond(c, waited[c]) THEN "sleep" ELSE "if_completed"]
    /\ UNCHANGED <<pending_requests, completed_responses, waited, response_data,
                   outcome, answerVars>>

\* lines 586-587, 585: the sleep ends, waited += 1, and the loop test again
handle_call_tool_wake(c) ==
    /\ pc[c] = "sleep"
    /\ waited' = [waited EXCEPT ![c] = waited[c] + 1]
    /\ pc' = [pc EXCEPT ![c] = IF LoopCond(c, waited[c] + 1) THEN "sleep" ELSE "if_completed"]
    /\ UNCHANGED <<pending_requests, completed_responses, response_data,
                   outcome, answerVars>>

\* the test of line 590 made on the wrong dictionary
AnswerPresentWrongDict(c) == Has(pending_requests, uuid4(c))

\* line 590: if request_id in completed_responses
AnswerPresent(c) == Has(completed_responses, uuid4(c))

handle_call_tool_if(c) ==
    /\ pc[c] = "if_completed"
    /\ pc' = [pc EXCEPT ![c] = IF AnswerPresent(c) THEN "read" ELSE "if_pending"]
    /\ UNCHANGED <<pending_requests, completed_responses, waited, response_data,
                   outcome, answerVars>>

\* line 591: the key of completed_responses the call reads
ReadKey(c) == uuid4(c)

\* line 591: response_data = completed_responses[request_id]
handle_call_tool_read(c) ==
    /\ pc[c] = "read"
    /\ IF Has(completed_responses, ReadKey(c))
       THEN /\ response_data' = [response_data EXCEPT ![c] = completed_responses[ReadKey(c)]]
            /\ pc' = [pc EXCEPT ![c] = "del_completed"]
            /\ outcome' = outcome
       ELSE /\ response_data' = response_data
            /\ pc' = [pc EXCEPT ![c] = "done"]
            /\ outcome' = [outcome EXCEPT ![c] = RaiseKeyError]
    /\ UNCHANGED <<pending_requests, completed_responses, waited, answerVars>>

\* lines 594-600: raise Exception(response) on is_error, else return the text
Result(data) ==
    IF data.is_error THEN RaiseException(data.response) ELSE Return(data.response)

\* lines 592-600: del completed_responses[request_id]; return or raise
handle_call_tool_del_completed(c) ==
    /\ pc[c] = "del_completed"
    /\ IF Has(completed_responses, uuid4(c))
       THEN /\ completed_responses' = DictDel(completed_responses, uuid4(c))
            /\ outcome' = [outcome EXCEPT ![c] = Result(response_data[c])]
       ELSE /\ completed_responses' = completed_responses
            /\ outcome' = [outcome EXCEPT ![c] = RaiseKeyError]
    /\ pc' = [pc EXCEPT ![c] = "done"]
    /\ UNCHANGED <<pending_requests, waited, response_data, answerVars>>

\* line 605: raise Exception("Request timed out ...")
Timeout == RaiseException(TimeoutMsg)

\* line 603: if request_id in pending_requests (else straight to line 605)
handle_call_tool_if_pending(c) ==
    /\ pc[c] = "if_pending"
    /\ IF Has(pending_requests, uuid4(c))
       THEN /\ pc' = [pc EXCEPT ![c] = "del_pending"]
            /\ outcome' = outcome
       ELSE /\ pc' = [pc EXCEPT ![c] = "done"]
            /\ outcome' = [outcome EXCEPT ![c] = Timeout]
    /\ UNCHANGED <<pending_requests, completed_responses, waited, response_data,
                   answerVars>>

\* lines 604-605: del pending_requests[request_id]; raise the timeout
handle_call_tool_del_pending(c) ==
    /\ pc[c] = "del_pending"
    /\ IF Has(pending_requests, uuid4(c))
       THEN /\ pending_requests' = DictDel(pending_requests, uuid4(c))
            /\ outcome' = [outcome EXCEPT ![c] = Timeout]
       ELSE /\ pending_requests' = pending_requests
            /\ outcome' = [outcome EXCEPT ![c] = RaiseKeyError]
    /\ pc' = [pc EXCEPT ![c] = "done"]
    /\ UNCHANGED <<completed_responses, waited, response_data, answerVars>>

CallStep(c) ==
    \/ handle_call_tool_insert(c)
    \/ handle_call_tool_while(c)
    \/ handle_call_tool_wake(c)
    \/ handle_call_tool_if(c)
    \/ handle_call_tool_read(c)
    \/ handle_call_tool_del_completed(c)
    \/ handle_call_tool_if_pending(c)
    \/ handle_call_tool_del_pending(c)

AnswerStep(a) ==
    \/ submit_response_if(a)
    \/ submit_response_store(a)
    \/ submit_response_del(a)

Next ==
    \/ \E c \in Calls : CallStep(c)
    \/ \E a \in Answers : AnswerStep(a)

Spec == Init /\ [][Next]_vars

\* asyncio raises CancelledError inside the pending await
RaiseCancelled == [kind |-> "raise_CancelledError", text |-> ""]

\* line 586: the task is cancelled while suspended in asyncio.sleep(1); the
\* loop sits in no try/except/finally, so CancelledError leaves
\* handle_call_tool without another statement of it running
handle_call_tool_cancel(c) ==
    /\ pc[c] = "sleep"
    /\ pc' = [pc EXCEPT ![c] = "cancelled"]
    /\ outcome' = [outcome EXCEPT ![c] = RaiseCancelled]
    /\ UNCHANGED <<pending_requests, completed_responses, waited, response_data,
                   answerVars>>

NextCancel ==
    \/ Next
    \/ \E c \in Calls : handle_call_tool_cancel(c)

\* the server with clients that may abandon a call in flight
SpecCancel == Init /\ [][NextCancel]_vars

\* the event loop resumes every coroutine that is ready, and every handler
\* thread that has started runs to its return
FairSpec ==
    /\ Spec
    /\ \A c \in Calls : WF_vars(CallStep(c))
    /\ \A a \in Answers : WF_vars(submit_response_store(a) \/ submit_response_del(a))

\* ---- vocabulary of the claims ----
\* the id an answer handler was called with
AnswerId(a) == areq[a].request_id
\* the handler has executed line 486 (its payload went into completed_responses)
Stored(a) == apc[a] = "del" \/ aresult[a] \in {"success", "KeyError"}
\* the handler returned {'success': True}
Accepted(a) == aresult[a] = "success"
\* the coroutine has returned or raised
Returned(c) == pc[c] = "done"
\* the coroutine is on the timeout branch (lines 601-605)
OnTimeoutPath(c) == pc[c] \in {"if_pending", "del_pending"}
\* an outcome that carries a human's payload
IsAnswerOutcome(o) == o.kind \in {"return", "raise_Exception"} /\ o.text \in Texts

\* C1: for no id does an answer call return success while the call that
\* created the id returns the timeout failure.
C1_ExactlyOneWins ==
    \A c \in Calls, a \in Answers :
        ~(Accepted(a) /\ AnswerId(a) = uuid4(c) /\ outcome[c] = Timeout)

\* C2: a call that has returned has exactly one of the three terminal
\* outcomes (success text, human-signaled failure, timeout failure), a call
\* that has not returned has none, and no call polls more than max_wait times.
C2_OneTerminalOutcome ==
    \A c \in Calls :
        /\ waited[c] <= max_wait
        /\ Returned(c) => (IsAnswerOutcome(outcome[c]) \/ outcome[c] = Timeout)
        /\ ~Returned(c) => outcome[c] = NoOutcome

\* C2, the liveness half: under fair scheduling every call returns.
C2_EveryCallReturns == \A c \in Calls : <>Returned(c)

\* C3: once answer(id, text, is_error=false) has been accepted, the call that
\* created id, when it returns, returns Success with exactly that text.
C3_AcceptedAnswerReturned ==
    \A c \in Calls, a \in Answers :
        (Accepted(a) /\ ~areq[a].is_error /\ AnswerId(a) = uuid4(c) /\ Returned(c))
            => outcome[c] = Return(areq[a].response)

\* C4: for every id at most one answer call ever records its payload, and
\* every answer call that has returned returned success or not found.
C4_AtomicAcceptance ==
    /\ \A a, b \in Answers :
         (a # b /\ Stored(a) /\ Stored(b)) => AnswerId(a) # AnswerId(b)
    /\ \A a \in Answers : Stored(a) /\ apc[a] = "done" => Accepted(a)

\* C5: a call that found no answer at its deadline returns the timeout
\* failure and leaves its id out of the registry, and an answer submitted
\* after the timeout failure is rejected as not found and stores nothing.
C5_TimeoutThenNotFound ==
    [][ /\ \A c \in Calls :
             (OnTimeoutPath(c) /\ pc'[c] = "done")
                => (outcome'[c] = Timeout /\ ~Has(pending_requests', uuid4(c)))
        /\ \A a \in Answers, c \in Calls :
             (apc[a] = "idle" /\ apc'[a] # "idle" /\ areq'[a].request_id = uuid4(c)
              /\ outcome[c] = Timeout)
                => (aresult'[a] = "not_found" /\ completed_responses' = completed_responses)
      ]_vars

\* C6: once answer(id, text, is_error=true) has been accepted, the call that
\* created id, when it returns, raises the failure whose message is text.
C6_AcceptedErrorRaised ==
    \A c \in Calls, a \in Answers :
        (Accepted(a) /\ areq[a].is_error /\ AnswerId(a) = uuid4(c) /\ Returned(c))
            => outcome[c] = RaiseException(areq[a].response)

\* an answer has been recorded for the id, or the call's timeout has fired
Resolved(c) ==
    \/ \E a \in Answers : AnswerId(a) = uuid4(c) /\ Stored(a)
    \/ outcome[c] = Timeout

\* C7: the pending listing holds an id exactly while its call has inserted it
\* and no answer has been recorded for it and its timeout has not fired, and
\* an id that left the listing never comes back.
C7_ListedIffUnresolved ==
    /\ [](\A c \in Calls :
            Has(get_requests, uuid4(c)) <=> (pc[c] # "start" /\ ~Resolved(c)))
    /\ [][ \A c \in Calls :
             (pc[c] # "start" /\ ~Has(pending_requests, uuid4(c)))
                => ~Has(pending_requests', uuid4(c)) ]_vars

\* C8: once the call for an id has returned, completed_responses holds no
\* entry for that id.
C8_NoAnswerOutlivesCall ==
    \A c \in Calls : Returned(c) => ~Has(completed_responses, uuid4(c))

\* C9: the final check of completed_responses decides the branch (an answer
\* present then is the one returned, whatever waited is), the timeout failure
\* is raised only from the timeout branch with waited >= max_wait, and a call
\* that saw an answer at its final check returns an answer, not the timeout.
C9_NoEarlyTimeoutNoMissedAnswer ==
    [][ \A c \in Calls :
          /\ (pc[c] = "if_completed" /\ pc'[c] # "if_completed")
                => IF Has(completed_responses, uuid4(c))
                   THEN pc'[c] = "read"
                   ELSE pc'[c] = "if_pending" /\ waited[c] >= max_wait
          /\ (outcome'[c] = Timeout /\ outcome[c] # Timeout)
                => (OnTimeoutPath(c) /\ waited[c] >= max_wait)
          /\ (pc[c] \in {"read", "del_completed"} /\ pc'[c] = "done")
                => IsAnswerOutcome(outcome'[c])
      ]_vars

\* C9 witness: one call has polled max_wait times and still returned the
\* answer recorded in its last interval, another has timed out.
C9_Witness ==
    \E c, d \in Calls :
        /\ Returned(c) /\ waited[c] = max_wait /\ IsAnswerOutcome(outcome[c])
        /\ outcome[d] = Timeout /\ waited[d] = max_wait

\* the registry entry and the stored answer of every id but id are untouched
FrameOther(id) ==
    \A b \in Ids \ {id} :
        /\ Has(pending_requests', b) <=> Has(pending_requests, b)
        /\ Has(pending_requests, b) => pending_requests'[b] = pending_requests[b]
        /\ Has(completed_responses', b) <=> Has(completed_responses, b)
        /\ Has(completed_responses, b) => completed_responses'[b] = completed_responses[b]

\* C10: a step of an answer handler or of a call touches the registry entry
\* and stored answer of its own id only, and the payload a call returns was
\* stored by an answer handler called with that call's id.
C10_OwnIdOnly ==
    [][ /\ \A a \in Answers : apc'[a] # apc[a] => FrameOther(areq'[a].request_id)
        /\ \A c \in Calls :
             (pc'[c] # pc[c] \/ waited'[c] # waited[c]) => FrameOther(uuid4(c))
        /\ \A c \in Calls :
             (outcome'[c] # outcome[c] /\ IsAnswerOutcome(outcome'[c]))
                => \E a \in Answers :
                      /\ AnswerId(a) = uuid4(c) /\ Stored(a)
                      /\ areq[a].response = outcome'[c].text
                      /\ areq[a].is_error = (outcome'[c].kind = "raise_Exception")
      ]_vars

\* C10 witness: two calls were in flight together and each returned the
\* payload answered for its own id.
C10_Witness ==
    \E c, d \in Calls :
        /\ c # d
        /\ outcome[c] = Return("yes")
        /\ outcome[d] = RaiseException("no")
        /\ waited[c] > 0 /\ waited[d] > 0

\* C11: an answer handler called with an id that has no pending entry returns
\* not found in that one step and leaves pending_requests and
\* completed_responses exactly as they were.
C11_NotFoundChangesNothing ==
    [][ \A a \in Answers :
          (apc[a] = "idle" /\ apc'[a] # "idle" /\ ~Has(pending_requests, areq'[a].request_id))
             => /\ apc'[a] = "done"
                /\ aresult'[a] = "not_found"
                /\ pending_requests' = pending_requests
                /\ completed_responses' = completed_responses
      ]_vars

\* C11 witness: one answer was rejected for an id whose call had timed out
\* and another for an id that was never submitted.
C11_Witness ==
    \E a, b \in Answers :
        /\ aresult[a] = "not_found" /\ outcome[AnswerId(a)] = Timeout
        /\ aresult[b] = "not_found" /\ pc[AnswerId(b)] = "start"

\* C12: no answer handler and no call ever ends in an unhandled error: an
\* answer ends with success or not found, a call with a returned text, a
\* human failure or the timeout failure.
C12_NoUnhandledError ==
    /\ \A a \in Answers : aresult[a] \in {"none", "success", "not_found"}
    /\ \A c \in Calls : outcome[c].kind \in {"none", "return", "raise_Exception"}

\* the call was cancelled during a poll sleep and its coroutine is gone
Cancelled(c) == pc[c] = "cancelled"

\* C13: once a waiting call has been cancelled its id is no longer in
\* pending_requests, and an answer submitted for it afterwards is rejected
\* as not found and stores nothing in completed_responses.
C13_CancelReleasesEntry ==
    /\ [](\A c \in Calls : Cancelled(c) => ~Has(pending_requests, uuid4(c)))
    /\ [][ \A a \in Answers, c \in Calls :
             (Cancelled(c) /\ apc[a] = "idle" /\ apc'[a] # "idle"
              /\ areq'[a].request_id = uuid4(c))
                => aresult'[a] = "not_found" ]_vars

\* an answer for the call's id has been accepted
AnswerAccepted(c) == \E a \in Answers : Accepted(a) /\ AnswerId(a) = uuid4(c)

C15_AnswerReturnedAtNextWake ==
    [][ \A c \in Calls :
          /\ (Has(completed_responses, uuid4(c)) /\ pc[c] \in {"while", "sleep"}
              /\ pc'[c] # "cancelled" /\ (pc'[c] # pc[c] \/ waited'[c] # waited[c]))
                => (pc'[c] = "if_completed" /\ waited'[c] <= waited[c] + 1)
          /\ (Has(completed_responses, uuid4(c))
              /\ pc[c] \in {"while", "sleep", "if_completed", "read"})
                => Has(completed_responses', uuid4(c))
          /\ (Has(completed_responses, uuid4(c)) /\ pc[c] = "if_completed"
              /\ pc'[c] # pc[c])
                => pc'[c] = "read"
          /\ (pc[c] = "read" /\ pc'[c] # pc[c])
                => (pc'[c] = "del_completed"
                    /\ response_data'[c] = completed_responses[uuid4(c)])
          /\ (pc[c] = "del_completed" /\ pc'[c] # pc[c])
                => (outcome'[c] = Result(response_data[c])
                    /\ IsAnswerOutcome(outcome'[c]))
      ]_vars

\* C15 witness: a call returned an answer after one wake-up, with poll
\* intervals of its deadline still unused.
C15_Witness ==
    \E c \in Calls :
        Returned(c) /\ IsAnswerOutcome(outcome[c]) /\ waited[c] > 0 /\ waited[c] < max_wait

\* the call has drawn its id and run line 573
Inserted(c) == pc[c] # "start"

\* C16: an entry that stays in pending_requests keeps its tool_name,
\* arguments and timestamp; an id enters pending_requests only by the insert
\* of the call that drew it, which runs once, so no id is inserted twice;
\* every other step leaves the set of ids the same or smaller; and the id of
\* a call that has not inserted yet is in neither dictionary.
C16_WriteOnceEntries ==
    /\ [](\A c \in Calls :
            ~Inserted(c) => (~Has(pending_requests, uuid4(c))
                             /\ ~Has(completed_responses, uuid4(c))))
    /\ [][ /\ \A id \in DOMAIN pending_requests :
                Has(pending_requests', id) => pending_requests'[id] = pending_requests[id]
           /\ \A id \in DOMAIN pending_requests' \ DOMAIN pending_requests :
                \E c \in Calls : uuid4(c) = id /\ ~Inserted(c) /\ pc'[c] = "while"
           /\ (\A c \in Calls : Inserted(c) <=> pc'[c] # "start")
                => DOMAIN pending_requests' \subseteq DOMAIN pending_requests
           /\ \A c \in Calls : Inserted(c) => pc'[c] # "start"
      ]_vars

\* C16 witness: two entries with different contents were registered; one was
\* removed by an answer and the other is still there after a poll.
C16_Witness ==
    \E c, d \in Calls :
        /\ AnswerAccepted(c)
        /\ Has(pending_requests, uuid4(d)) /\ waited[d] > 0
        /\ pending_requests[uuid4(d)].tool_name = "human_decision"
        /\ pending_requests[uuid4(d)].timestamp = "t2"

\* C17: when every call has returned and no answer handler is between its
\* membership test and its return, both dictionaries are empty.
C17_QuiescentClean ==
    ((\A c \in Calls : Returned(c)) /\ (\A a \in Answers : apc[a] \in {"idle", "done"}))
        => (pending_requests = EmptyDict /\ completed_responses = EmptyDict)

====
